---- MODULE Spec2Model ----
(***************************************************************************)
(* Section-header decoding of rust-elf (src/section.rs): the record        *)
(* decoder SectionHeader::parse_at, the SectionFlag display, and the lazy  *)
(* SectionHeaderIterator over a borrowed byte buffer.                      *)
(*                                                                         *)
(* Representation of integers.  A u32 or u64 does not fit TLC's integers,  *)
(* so an unsigned integer of w bytes is held as its base-256 numeral: a    *)
(* sequence of w digits in 0..255, most significant digit first.  The      *)
(* value 0x03020100 is <<3, 2, 1, 0>>.  A byte buffer is a sequence of     *)
(* bytes in memory order; cursors are 0-based byte offsets as in the code. *)
(***************************************************************************)
EXTENDS Integers, Sequences, FiniteSets, TLC

VARIABLES data, call, iters, shown

vars == <<data, call, iters, shown>>

(***************************************************************************)
(* Bounds of the model.                                                    *)
(***************************************************************************)
\* Longest buffer of the direct-decode specification (two 64-byte records
\* and a short tail).
MaxLen == 130
\* Most whole records in a buffer of the sequence specification.
MaxRecords == 2
\* Largest starting cursor of a decode whose flags are displayed.
MaxDisplayCursor == 9

(***************************************************************************)
(* Program constants.                                                      *)
(***************************************************************************)
ELF32SHDRSIZE == 40
ELF64SHDRSIZE == 64

Endians == {"Little", "Big"}
Classes == {"ELF32", "ELF64"}

\* Record length the sequence strides by, per class.
RecordSize(class) ==
    IF class = "ELF32" THEN ELF32SHDRSIZE ELSE ELF64SHDRSIZE

(***************************************************************************)
(* Buffers.                                                                *)
(***************************************************************************)
Patterns == {"zero", "incr", "decr"}

\* The byte at 0-based index n of a buffer filled with pattern p.
PatternByte(p, n) ==
    CASE p = "zero" -> 0
      [] p = "incr" -> n % 256
      [] p = "decr" -> (255 - n) % 256

MakeBuffer(p, len) ==
    [j \in 1..len |-> PatternByte(p, j - 1)]

(***************************************************************************)
(* Scalar cursor reader (crate::parse::EndianParseExt for &[u8]).          *)
(***************************************************************************)
Reverse(s) ==
    [j \in 1..Len(s) |-> s[Len(s) + 1 - j]]

\* u32::from_le_bytes / from_be_bytes (and u64): the numeral, most
\* significant digit first, that the bytes encode in the given order.
FromBytes(endian, bytes) ==
    IF endian = "Little" THEN Reverse(bytes) ELSE bytes

NoError == [kind |-> "none", at |-> 0]

BadOffset(offset) == [kind |-> "BadOffset", at |-> offset]

\* Reads `width` bytes at `offset`; on success the cursor advances by
\* `width`, on a shortfall it fails with BadOffset and the cursor stays.
parse_uint_at(width, parser, endian, offset) ==
    IF offset + width > Len(parser)
    THEN [ok |-> FALSE, value |-> <<>>, err |-> BadOffset(offset),
          offset |-> offset]
    ELSE [ok |-> TRUE,
          value |-> FromBytes(endian, SubSeq(parser, offset + 1, offset + width)),
          err |-> NoError, offset |-> offset + width]

parse_u32_at(parser, endian, offset) ==
    parse_uint_at(4, parser, endian, offset)

parse_u64_at(parser, endian, offset) ==
    parse_uint_at(8, parser, endian, offset)

(***************************************************************************)
(* SectionHeader and SectionHeader::parse_at.                              *)
(***************************************************************************)
FieldNames ==
    <<"sh_name", "sh_type", "sh_flags", "sh_addr", "sh_offset", "sh_size",
      "sh_link", "sh_info", "sh_addralign", "sh_entsize">>

\* The in-memory record: each field a numeral of its declared width.
SectionHeader(f) ==
    [sh_name |-> f[1], sh_type |-> f[2], sh_flags |-> f[3], sh_addr |-> f[4],
     sh_offset |-> f[5], sh_size |-> f[6], sh_link |-> f[7], sh_info |-> f[8],
     sh_addralign |-> f[9], sh_entsize |-> f[10]]

\* No record: what a failed decode hands back.
NoHeader == SectionHeader([k \in 1..10 |-> <<>>])

\* Widening that copies the sign bit: `x as i32 as i64 as u64`.
as_u64_SignExtend(v) ==
    (IF v[1] >= 128 THEN <<255, 255, 255, 255>> ELSE <<0, 0, 0, 0>>) \o v

\* `x as u64` on a u32: unsigned zero-extension.
as_u64(v) == <<0, 0, 0, 0>> \o v

\* The ELF32 arm with sh_flags read by parse_u64_at, as in the ELF64 arm.
Fields32_Flags64 ==
    << [read |-> 4, cast |-> FALSE], [read |-> 4, cast |-> FALSE],
       [read |-> 8, cast |-> FALSE], [read |-> 4, cast |-> TRUE],
       [read |-> 4, cast |-> TRUE],  [read |-> 4, cast |-> TRUE],
       [read |-> 4, cast |-> FALSE], [read |-> 4, cast |-> FALSE],
       [read |-> 4, cast |-> TRUE],  [read |-> 4, cast |-> TRUE] >>

\* The reads of the Class::ELF32 arm, in order: the scalar read each field
\* uses (its width in bytes) and whether the result is cast `as u64`.
Fields32 ==
    << [read |-> 4, cast |-> FALSE],   \* sh_name
       [read |-> 4, cast |-> FALSE],   \* sh_type
       [read |-> 4, cast |-> TRUE],    \* sh_flags
       [read |-> 4, cast |-> TRUE],    \* sh_addr
       [read |-> 4, cast |-> TRUE],    \* sh_offset
       [read |-> 4, cast |-> TRUE],    \* sh_size
       [read |-> 4, cast |-> FALSE],   \* sh_link
       [read |-> 4, cast |-> FALSE],   \* sh_info
       [read |-> 4, cast |-> TRUE],    \* sh_addralign
       [read |-> 4, cast |-> TRUE] >>  \* sh_entsize

\* The ELF64 arm with sh_addralign read as in the ELF32 arm.
Fields64_Addralign32 ==
    << [read |-> 4, cast |-> FALSE], [read |-> 4, cast |-> FALSE],
       [read |-> 8, cast |-> FALSE], [read |-> 8, cast |-> FALSE],
       [read |-> 8, cast |-> FALSE], [read |-> 8, cast |-> FALSE],
       [read |-> 4, cast |-> FALSE], [read |-> 4, cast |-> FALSE],
       [read |-> 4, cast |-> TRUE],  [read |-> 8, cast |-> FALSE] >>

\* The ELF64 arm with sh_flags read as in the ELF32 arm.
Fields64_Flags32 ==
    << [read |-> 4, cast |-> FALSE], [read |-> 4, cast |-> FALSE],
       [read |-> 4, cast |-> TRUE],  [read |-> 8, cast |-> FALSE],
       [read |-> 8, cast |-> FALSE], [read |-> 8, cast |-> FALSE],
       [read |-> 4, cast |-> FALSE], [read |-> 4, cast |-> FALSE],
       [read |-> 8, cast |-> FALSE], [read |-> 8, cast |-> FALSE] >>

\* The reads of the Class::ELF64 arm.
Fields64 ==
    << [read |-> 4, cast |-> FALSE],   \* sh_name
       [read |-> 4, cast |-> FALSE],   \* sh_type
       [read |-> 8, cast |-> FALSE],   \* sh_flags
       [read |-> 8, cast |-> FALSE],   \* sh_addr
       [read |-> 8, cast |-> FALSE],   \* sh_offset
       [read |-> 8, cast |-> FALSE],   \* sh_size
       [read |-> 4, cast |-> FALSE],   \* sh_link
       [read |-> 4, cast |-> FALSE],   \* sh_info
       [read |-> 8, cast |-> FALSE],   \* sh_addralign
       [read |-> 8, cast |-> FALSE] >> \* sh_entsize

ClassFields(class) ==
    IF class = "ELF32" THEN Fields32 ELSE Fields64

\* One field read: parse_u32_at or parse_u64_at, then the cast if any.
ReadField(fd, parser, endian, offset) ==
    LET r == IF fd.read = 4 THEN parse_u32_at(parser, endian, offset)
                            ELSE parse_u64_at(parser, endian, offset)
    IN  IF r.ok /\ fd.cast THEN [r EXCEPT !.value = as_u64(r.value)] ELSE r

\* The reads with the cursor moved past a field before its read is known
\* to have succeeded.
RECURSIVE ReadFields_AdvanceOnFailure(_, _, _, _, _, _)
ReadFields_AdvanceOnFailure(fields, k, parser, endian, offset, acc) ==
    IF k > Len(fields)
    THEN [ok |-> TRUE, value |-> SectionHeader(acc), err |-> NoError,
          offset |-> offset]
    ELSE LET r == ReadField(fields[k], parser, endian, offset)
         IN  IF ~r.ok
             THEN [ok |-> FALSE, value |-> NoHeader, err |-> r.err,
                   offset |-> r.offset + fields[k].read]
             ELSE ReadFields_AdvanceOnFailure(fields, k + 1, parser, endian,
                                              r.offset, Append(acc, r.value))

\* The struct expression's reads from field k on, threading the caller's
\* cursor; `?` returns at the first read that fails, with the cursor where
\* the reads so far left it.
RECURSIVE ReadFields(_, _, _, _, _, _)
ReadFields(fields, k, parser, endian, offset, acc) ==
    IF k > Len(fields)
    THEN [ok |-> TRUE, value |-> SectionHeader(acc), err |-> NoError,
          offset |-> offset]
    ELSE LET r == ReadField(fields[k], parser, endian, offset)
         IN  IF ~r.ok
             THEN [ok |-> FALSE, value |-> NoHeader, err |-> r.err,
                   offset |-> r.offset]
             ELSE ReadFields(fields, k + 1, parser, endian, r.offset,
                             Append(acc, r.value))

\* SectionHeader::parse_at: the result, and the caller's cursor after it.
parse_at(endian, class, offset, parser) ==
    ReadFields(ClassFields(class), 1, parser, endian, offset, <<>>)

(***************************************************************************)
(* State.                                                                  *)
(***************************************************************************)
NoCall ==
    [made |-> FALSE, endian |-> "Little", class |-> "ELF32", start |-> 0,
     res |-> [ok |-> FALSE, value |-> NoHeader, err |-> NoError, offset |-> 0]]

NoShown == [made |-> FALSE, value |-> <<>>, text |-> <<>>]

\* A direct call whose cursor is one shared by every sequence over the
\* buffer instead of the caller's own.
ParseAt_SharedCursor(endian, class, c) ==
    /\ ~call.made
    /\ call' = [made |-> TRUE, endian |-> endian, class |-> class,
                start |-> c, res |-> parse_at(endian, class, c, data)]
    /\ iters' = [i \in DOMAIN iters |->
                    [iters[i] EXCEPT !.offset = call'.res.offset]]
    /\ UNCHANGED <<data, shown>>

\* A direct call of parse_at by a caller holding its own cursor c; the
\* caller makes the one call and keeps its result.
ParseAt(endian, class, c) ==
    /\ ~call.made
    /\ call' = [made |-> TRUE, endian |-> endian, class |-> class,
                start |-> c, res |-> parse_at(endian, class, c, data)]
    /\ UNCHANGED <<data, iters, shown>>

(***************************************************************************)
(* Direct decodes over every buffer length and every cursor.               *)
(***************************************************************************)
ParseBuffers ==
    {MakeBuffer(p, len) : p \in Patterns, len \in 0..MaxLen}

InitParse ==
    /\ data \in ParseBuffers
    /\ call = NoCall
    /\ iters = <<>>
    /\ shown = NoShown

NextParse ==
    \E endian \in Endians, class \in Classes, c \in 0..(MaxLen + 1) :
        ParseAt(endian, class, c)

SpecParse == InitParse /\ [][NextParse]_vars

(***************************************************************************)
(* SectionFlag display: write!(f, "{:#x}", self.0).                        *)
(***************************************************************************)
HexChars ==
    <<"0", "1", "2", "3", "4", "5", "6", "7", "8", "9",
      "a", "b", "c", "d", "e", "f">>

\* The base-16 digits of a numeral, most significant first.
Nibbles(v) ==
    [j \in 1..(2 * Len(v)) |->
        IF j % 2 = 1 THEN v[(j + 1) \div 2] \div 16 ELSE v[j \div 2] % 16]

\* The digits without leading zeros; zero keeps its one digit.
RECURSIVE StripZeros(_)
StripZeros(s) ==
    IF Len(s) > 1 /\ s[1] = 0 THEN StripZeros(Tail(s)) ELSE s

\* {:x}: lowercase hexadecimal, as many digits as the value needs.
LowerHex(v) ==
    LET d == StripZeros(Nibbles(v))
    IN  [j \in 1..Len(d) |-> HexChars[d[j] + 1]]

\* {:#018x}: zero-padded to the full width of a u64.
SectionFlag_Display_Padded(flag) ==
    <<"0", "x">> \o [j \in 1..(2 * Len(flag)) |-> HexChars[Nibbles(flag)[j] + 1]]

\* {:#x}: the alternate form puts "0x" before the digits.
SectionFlag_Display(flag) ==
    <<"0", "x">> \o LowerHex(flag)

\* A caller formats the flags of the record its decode returned.
Display ==
    /\ call.made
    /\ call.res.ok
    /\ ~shown.made
    /\ shown' = [made |-> TRUE, value |-> call.res.value.sh_flags,
                 text |-> SectionFlag_Display(call.res.value.sh_flags)]
    /\ UNCHANGED <<data, call, iters>>

DisplayBuffers ==
    {MakeBuffer(p, len) : p \in Patterns,
                          len \in {ELF32SHDRSIZE + MaxDisplayCursor,
                                   ELF64SHDRSIZE + MaxDisplayCursor}}

InitDisplay ==
    /\ data \in DisplayBuffers
    /\ call = NoCall
    /\ iters = <<>>
    /\ shown = NoShown

NextDisplay ==
    \/ \E endian \in Endians, class \in Classes, c \in 0..MaxDisplayCursor :
          ParseAt(endian, class, c)
    \/ Display

SpecDisplay == InitDisplay /\ [][NextDisplay]_vars

(***************************************************************************)
(* SectionHeaderIterator = ParsingIterator<SectionHeader>.                 *)
(***************************************************************************)
IterIds == {1, 2}

\* ParsingIterator::new: the class, the byte order and a cursor at zero;
\* `last` is what the latest next() reported and `out` the records yielded.
NewIter(endian, class) ==
    [endian |-> endian, class |-> class, offset |-> 0, last |-> "fresh",
     out |-> <<>>]

\* What next() makes of one sequence: end of sequence when fewer bytes
\* remain than one record; otherwise a decode at the cursor (on a cursor of
\* its own) and the cursor moved on by the record length.
IterStep(it, buf) ==
    IF Len(buf) - it.offset < RecordSize(it.class)
    THEN [it EXCEPT !.last = "end"]
    ELSE LET r == parse_at(it.endian, it.class, it.offset, buf)
         IN  IF r.ok
             THEN [it EXCEPT !.offset = it.offset + RecordSize(it.class),
                             !.last = "item",
                             !.out = Append(it.out, r.value)]
             ELSE [it EXCEPT !.offset = it.offset + RecordSize(it.class),
                             !.last = "error"]

\* next() on sequence i.
IterNext(i) ==
    /\ iters[i].last # "error"
    /\ iters' = [iters EXCEPT ![i] = IterStep(iters[i], data)]
    /\ UNCHANGED <<data, call, shown>>

\* Buffers of whole records with no tail, a one-byte tail, or a tail one
\* byte short of a record.
IterLengths ==
    UNION {{n * RecordSize(cl), n * RecordSize(cl) + 1,
            n * RecordSize(cl) + RecordSize(cl) - 1} :
           n \in 0..MaxRecords, cl \in Classes}

IterBuffers ==
    {MakeBuffer("incr", len) : len \in IterLengths}

\* Cursors of the direct calls made beside the sequences.
IterCursors ==
    {1} \cup {n * RecordSize(cl) : n \in 0..MaxRecords, cl \in Classes}

Init ==
    /\ data \in IterBuffers
    /\ call = NoCall
    /\ iters \in [IterIds -> {NewIter(e, cl) : e \in Endians, cl \in Classes}]
    /\ shown = NoShown

Next ==
    \/ \E i \in IterIds : IterNext(i)
    \/ \E endian \in Endians, class \in Classes, c \in IterCursors :
          ParseAt(endian, class, c)

Spec == Init /\ [][Next]_vars

(***************************************************************************)
(* What the record layout says, stated byte by byte.                       *)
(***************************************************************************)
\* The numeral the w bytes at 0-based offset `at` of buf encode: digit j
\* (from the most significant) is the byte of weight 256^(w-j).
Encoded(endian, buf, at, w) ==
    [j \in 1..w |-> IF endian = "Little" THEN buf[at + w + 1 - j]
                                          ELSE buf[at + j]]

Zero32 == <<0, 0, 0, 0>>

\* On-disk widths of the ten fields, in order.
OnDiskWidths(class) ==
    IF class = "ELF32" THEN <<4, 4, 4, 4, 4, 4, 4, 4, 4, 4>>
                       ELSE <<4, 4, 8, 8, 8, 8, 4, 4, 8, 8>>

\* Sum of the first k on-disk widths.
RECURSIVE PrefixWidth(_, _)
PrefixWidth(class, k) ==
    IF k = 0 THEN 0 ELSE PrefixWidth(class, k - 1) + OnDiskWidths(class)[k]

\* The ELF32 record at cursor c: 4-byte slices at c+0, c+4, ..., c+36.
Expected32(endian, buf, c) ==
    [sh_name      |-> Encoded(endian, buf, c, 4),
     sh_type      |-> Encoded(endian, buf, c + 4, 4),
     sh_flags     |-> Zero32 \o Encoded(endian, buf, c + 8, 4),
     sh_addr      |-> Zero32 \o Encoded(endian, buf, c + 12, 4),
     sh_offset    |-> Zero32 \o Encoded(endian, buf, c + 16, 4),
     sh_size      |-> Zero32 \o Encoded(endian, buf, c + 20, 4),
     sh_link      |-> Encoded(endian, buf, c + 24, 4),
     sh_info      |-> Encoded(endian, buf, c + 28, 4),
     sh_addralign |-> Zero32 \o Encoded(endian, buf, c + 32, 4),
     sh_entsize   |-> Zero32 \o Encoded(endian, buf, c + 36, 4)]

\* The ELF64 record at cursor c.
Expected64(endian, buf, c) ==
    [sh_name      |-> Encoded(endian, buf, c, 4),
     sh_type      |-> Encoded(endian, buf, c + 4, 4),
     sh_flags     |-> Encoded(endian, buf, c + 8, 8),
     sh_addr      |-> Encoded(endian, buf, c + 16, 8),
     sh_offset    |-> Encoded(endian, buf, c + 24, 8),
     sh_size      |-> Encoded(endian, buf, c + 32, 8),
     sh_link      |-> Encoded(endian, buf, c + 40, 4),
     sh_info      |-> Encoded(endian, buf, c + 44, 4),
     sh_addralign |-> Encoded(endian, buf, c + 48, 8),
     sh_entsize   |-> Encoded(endian, buf, c + 56, 8)]

Expected(endian, class, buf, c) ==
    IF class = "ELF32" THEN Expected32(endian, buf, c)
                       ELSE Expected64(endian, buf, c)

IsIncreasing(buf) == \A j \in 1..Len(buf) : buf[j] = (j - 1) % 256

(***************************************************************************)
(* Direct decodes.                                                         *)
(***************************************************************************)
\* C1: a parse_at call at cursor 0 over a buffer shorter than one record of
\* the class (40 bytes for ELF32, 64 for ELF64) fails with BadOffset and
\* returns no record.
C1_TooShortIsBadOffset ==
    (call.made /\ call.start = 0
        /\ Len(data) < (IF call.class = "ELF32" THEN 40 ELSE 64))
    => /\ ~call.res.ok
       /\ call.res.err.kind = "BadOffset"
       /\ call.res.value = NoHeader

C1_Witness ==
    /\ call.made /\ call.start = 0 /\ call.class = "ELF64"
    /\ Len(data) = 63
    /\ call.res.err.kind = "BadOffset"

\* C2: an ELF32 decode with at least 40 bytes from the cursor returns the
\* ten fields encoded by the 4-byte slices at c+0 .. c+36 in the configured
\* byte order, the six 64-bit fields zero-extended (below 2^32); for
\* little-endian bytes 0x00..0x27, name = 0x03020100, flags = 0x0B0A0908,
\* entry-size = 0x27262524.
C2_Elf32Fields ==
    (call.made /\ call.class = "ELF32" /\ call.start + 40 <= Len(data))
    => /\ call.res.ok
       /\ call.res.value = Expected32(call.endian, data, call.start)
       /\ \A f \in {"sh_flags", "sh_addr", "sh_offset", "sh_size",
                    "sh_addralign", "sh_entsize"} :
             /\ Len(call.res.value[f]) = 8
             /\ SubSeq(call.res.value[f], 1, 4) = Zero32
       /\ (IsIncreasing(data) /\ call.endian = "Little" /\ call.start = 0)
          => /\ call.res.value.sh_name = <<3, 2, 1, 0>>
             /\ call.res.value.sh_type = <<7, 6, 5, 4>>
             /\ call.res.value.sh_flags = <<0, 0, 0, 0, 11, 10, 9, 8>>
             /\ call.res.value.sh_link = <<27, 26, 25, 24>>
             /\ call.res.value.sh_entsize = <<0, 0, 0, 0, 39, 38, 37, 36>>

\* An ELF32 decode of bytes with the top bit set, at a cursor past zero.
C2_Witness ==
    /\ call.made /\ call.class = "ELF32" /\ call.res.ok
    /\ call.start = 3
    /\ call.res.value.sh_flags = <<0, 0, 0, 0, 241, 242, 243, 244>>

\* C3: an ELF64 decode with at least 64 bytes from the cursor returns name
\* c+0 (4 bytes), type c+4 (4), flags c+8 (8), address c+16 (8), file-offset
\* c+24 (8), size c+32 (8), link c+40 (4), info c+44 (4), alignment c+48
\* (8), entry-size c+56 (8); for big-endian bytes 0x00..0x3F, name =
\* 0x00010203, flags = 0x08090A0B0C0D0E0F, link = 0x28292A2B, entry-size =
\* 0x38393A3B3C3D3E3F.
C3_Elf64Fields ==
    (call.made /\ call.class = "ELF64" /\ call.start + 64 <= Len(data))
    => /\ call.res.ok
       /\ call.res.value = Expected64(call.endian, data, call.start)
       /\ \A f \in {"sh_name", "sh_type", "sh_link", "sh_info"} :
             Len(call.res.value[f]) = 4
       /\ (IsIncreasing(data) /\ call.endian = "Big" /\ call.start = 0)
          => /\ call.res.value.sh_name = <<0, 1, 2, 3>>
             /\ call.res.value.sh_flags = <<8, 9, 10, 11, 12, 13, 14, 15>>
             /\ call.res.value.sh_link = <<40, 41, 42, 43>>
             /\ call.res.value.sh_entsize =
                    <<56, 57, 58, 59, 60, 61, 62, 63>>

C3_Witness ==
    /\ call.made /\ call.class = "ELF64" /\ call.res.ok
    /\ call.endian = "Little" /\ call.start = 64
    /\ call.res.value.sh_link = <<107, 106, 105, 104>>

\* C5 as claimed: a decode that fails leaves the caller's cursor at the
\* value it had when the call started.
C5_CursorRestoredOnFailure ==
    (call.made /\ ~call.res.ok) => call.res.offset = call.start

\* C5 amended: a decode that fails stops at the first field read the
\* remaining bytes cannot satisfy, returns no record, reports that read's
\* offset, and leaves the caller's cursor past the fields read before it
\* (the start plus their widths); a decode that succeeds moves the cursor by
\* the record length; no decode modifies the buffer.
C5_FailureKeepsReadsSoFar ==
    /\ [][data' = data]_vars
    /\ [](call.made =>
        IF call.res.ok
        THEN call.res.offset = call.start + PrefixWidth(call.class, 10)
        ELSE /\ call.res.value = NoHeader
             /\ call.res.err = BadOffset(call.res.offset)
             /\ \E k \in 0..9 :
                   /\ call.res.offset = call.start + PrefixWidth(call.class, k)
                   /\ call.res.offset + OnDiskWidths(call.class)[k + 1]
                          > Len(data))

\* A failed decode whose cursor has moved: two fields were read.
C5_Witness ==
    /\ call.made /\ ~call.res.ok
    /\ call.start = 0 /\ Len(data) = 10
    /\ call.res.offset = 8

\* C7: a successful decode advances the cursor by the sum of the on-disk
\* widths of the ten fields, which is the class's record length: 40 for
\* ELF32 (ten 4-byte reads), 64 for ELF64 (four 4-byte and six 8-byte).
C7_ConsumesRecordLength ==
    (call.made /\ call.res.ok)
    => /\ call.res.offset - call.start = PrefixWidth(call.class, 10)
       /\ call.res.offset - call.start = RecordSize(call.class)
       /\ call.res.offset - call.start
              = (IF call.class = "ELF32" THEN 10 * 4 ELSE 4 * 4 + 6 * 8)
       /\ \A k \in 1..10 :
             Len(call.res.value[FieldNames[k]]) >= OnDiskWidths(call.class)[k]

C7_Witness ==
    /\ call.made /\ call.res.ok /\ call.class = "ELF64"
    /\ call.start = 5 /\ call.res.offset = 69

(***************************************************************************)
(* The sequence.                                                           *)
(***************************************************************************)
\* Whole records in a buffer for the class of sequence i.
WholeRecords(i) ==
    Len(data) \div (IF iters[i].class = "ELF32" THEN 40 ELSE 64)

\* C4: a sequence over a buffer of length L yields floor(L / R) records and
\* then reports end-of-sequence, never an error; a partial tail of 1..R-1
\* bytes is ignored.
C4_YieldsWholeRecords ==
    \A i \in IterIds :
        /\ iters[i].last # "error"
        /\ Len(iters[i].out) <= WholeRecords(i)
        /\ iters[i].last = "fresh" => iters[i].out = <<>>
        /\ iters[i].last = "item" => Len(iters[i].out) >= 1
        /\ iters[i].last = "end" => Len(iters[i].out) = WholeRecords(i)

\* A sequence that has ended after two records, a partial tail ignored.
C4_Witness ==
    \E i \in IterIds :
        /\ iters[i].last = "end"
        /\ Len(iters[i].out) = 2
        /\ iters[i].class = "ELF64"
        /\ Len(data) = 2 * 64 + 63

\* C6: the cursor of a sequence starts at 0, is k * R after the k-th
\* record, never decreases, and the k-th record (from 0) is the record at
\* cursor k * R of the buffer for the sequence's class and byte order.
C6_ConstantStride ==
    /\ [][\A i \in IterIds : iters'[i].offset >= iters[i].offset]_vars
    /\ [](\A i \in IterIds :
            /\ iters[i].last = "fresh" => iters[i].offset = 0
            /\ iters[i].offset
                  = Len(iters[i].out) * (IF iters[i].class = "ELF32" THEN 40 ELSE 64)
            /\ \A k \in 0..(Len(iters[i].out) - 1) :
                  iters[i].out[k + 1]
                      = Expected(iters[i].endian, iters[i].class, data,
                                 k * (IF iters[i].class = "ELF32" THEN 40 ELSE 64)))

\* A sequence that has produced its second record.
C6_Witness ==
    \E i \in IterIds :
        /\ iters[i].class = "ELF32" /\ iters[i].endian = "Little"
        /\ Len(iters[i].out) = 2
        /\ iters[i].offset = 80
        /\ IsIncreasing(data)
        /\ iters[i].out[2].sh_name = <<43, 42, 41, 40>>

\* The sequence (endian, class) after n calls of next() with nothing else
\* running.
RECURSIVE RunAlone(_, _, _, _)
RunAlone(endian, class, buf, n) ==
    IF n = 0 THEN NewIter(endian, class)
    ELSE IterStep(RunAlone(endian, class, buf, n - 1), buf)

\* Calls of next() that sequence i has answered so far (repeated calls after
\* the end change nothing and count once).
CallsAnswered(i) ==
    Len(iters[i].out) + (IF iters[i].last = "end" THEN 1 ELSE 0)

\* C9: sequences and direct decodes over one buffer, interleaved in any
\* order, each produce what they produce alone: a step changes only its own
\* cursor and results, never the buffer or another sequence.
C9_Independent ==
    /\ [][/\ data' = data
          /\ call' # call => iters' = iters
          /\ \A i \in IterIds :
                iters'[i] # iters[i]
                => /\ call' = call
                   /\ \A j \in IterIds \ {i} : iters'[j] = iters[j]]_vars
    /\ [](/\ \A i \in IterIds :
                iters[i] = RunAlone(iters[i].endian, iters[i].class, data,
                                    CallsAnswered(i))
          /\ call.made =>
                /\ call.res.ok <=>
                      call.start + RecordSize(call.class) <= Len(data)
                /\ call.res.ok =>
                      call.res.value
                          = Expected(call.endian, call.class, data, call.start))

\* Two sequences of different classes, both under way, and a direct decode.
C9_Witness ==
    /\ call.made /\ call.res.ok
    /\ iters[1].class # iters[2].class
    /\ Len(iters[1].out) = 1
    /\ Len(iters[2].out) = 2

\* C10: a decode succeeds exactly when a whole record lies between the
\* cursor and the end of the buffer (c + R <= L), so no decode that a
\* sequence makes after its remaining-bytes check fails, and no sequence
\* reports an error.
C10_SucceedsIffRecordFits ==
    /\ call.made =>
          (call.res.ok <=>
              call.start + (IF call.class = "ELF32" THEN 40 ELSE 64)
                  <= Len(data))
    /\ \A i \in IterIds :
          /\ iters[i].last # "error"
          /\ Len(data) - iters[i].offset
                 >= (IF iters[i].class = "ELF32" THEN 40 ELSE 64)
             => parse_at(iters[i].endian, iters[i].class, iters[i].offset,
                         data).ok

\* A decode of the last whole record, beside a sequence that has ended.
C10_Witness ==
    /\ call.made /\ call.res.ok
    /\ call.start > 0
    /\ call.start + RecordSize(call.class) = Len(data)
    /\ \E i \in IterIds : iters[i].last = "end" /\ Len(iters[i].out) = 2

(***************************************************************************)
(* The flags display.                                                      *)
(***************************************************************************)
\* The numeral of eight bytes that hexadecimal digits denote.
HexDigitValue(ch) ==
    CHOOSE n \in 0..15 : HexChars[n + 1] = ch

PaddedNibbles(chars) ==
    [j \in 1..16 |->
        IF j <= 16 - Len(chars) THEN 0
        ELSE HexDigitValue(chars[j - (16 - Len(chars))])]

HexValue(chars) ==
    LET n == PaddedNibbles(chars)
    IN  [b \in 1..8 |-> n[2 * b - 1] * 16 + n[2 * b]]

ZeroFlag == <<0, 0, 0, 0, 0, 0, 0, 0>>

\* C8 as claimed: the text has the same length for every value.
C8_SameLengthForEveryValue ==
    shown.made => Len(shown.text) = Len(SectionFlag_Display(ZeroFlag))

\* C8 amended: the text is "0x" followed by the lowercase hexadecimal
\* digits of the stored 64-bit value with no leading zeros (one digit for
\* zero), so 3 to 18 characters long; the digits denote exactly the stored
\* value, whether it came from a 32-bit or a 64-bit flags field.
C8_MinimalLowerHex ==
    shown.made =>
        LET digits == SubSeq(shown.text, 3, Len(shown.text))
        IN  /\ shown.value = call.res.value.sh_flags
            /\ Len(shown.value) = 8
            /\ SubSeq(shown.text, 1, 2) = <<"0", "x">>
            /\ Len(digits) \in 1..16
            /\ \A j \in 1..Len(digits) :
                  \E n \in 1..16 : HexChars[n] = digits[j]
            /\ HexValue(digits) = shown.value
            /\ Len(digits) > 1 => digits[1] # "0"
            /\ shown.value = ZeroFlag => shown.text = <<"0", "x", "0">>

\* A flags value from a 32-bit field, shown in nine characters.
C8_Witness ==
    /\ shown.made
    /\ call.class = "ELF32" /\ call.endian = "Little" /\ call.start = 0
    /\ shown.text = <<"0", "x", "b", "0", "a", "0", "9", "0", "8">>

====
